---------------------------- MODULE Spec2Model ----------------------------
(***************************************************************************)
(* Identity & access-control core of commcomms: invite-gated registration, *)
(* refresh-token rotation and the per-key token-bucket rate limiter.       *)
(*                                                                         *)
(* Three specifications share the module's variables:                      *)
(*   Spec         concurrent Register / UseInvite calls on the invite and  *)
(*                user stores;                                             *)
(*   SpecRefresh  Login and concurrent RefreshTokens calls on the          *)
(*                revocation store;                                        *)
(*   SpecLimiter  concurrent Allow calls and the cleanup goroutine of one  *)
(*                RateLimiter.                                             *)
(* Strings are sequences of one-character strings.  Time is in minutes in  *)
(* Spec and SpecRefresh and in periods of 5 minutes in SpecLimiter.         *)
(***************************************************************************)
EXTENDS Integers, Sequences, FiniteSets, TLC

VARIABLES
    now,        \* time.Now(), minutes
    invites,    \* InMemoryInviteRepository.invites: code -> Invite
    users,      \* InMemoryUserRepository.users: the set of stored User records
    reg,        \* the Register calls: process -> position, arguments, result
    uses,       \* number of direct InviteService.UseInvite calls made
    revoked,    \* InMemoryRefreshTokenRepository.revoked: the set of revoked tokens
    minted,     \* every token generateTokenWithExpiry has signed so far
    ref,        \* the RefreshTokens calls: process -> position, token, result
    login,      \* the Login calls made so far; the last one's arguments and outcome
    rate,       \* RateLimiter.rate
    interval,   \* RateLimiter.interval
    capacity,   \* RateLimiter.capacity
    buckets,    \* RateLimiter.buckets: key -> tokenBucket, or NoBucket
    mu,         \* RateLimiter.mu: the holder of the lock, or Free
    call,       \* the Allow calls: caller -> position, key
    nextSweep,  \* when the cleanup ticker fires next
    obs,        \* per key, what a client has observed of Allow's answers
    unswept,    \* the buckets of a limiter given the same Allow calls and no cleanup
    gained,     \* per key, when its bucket last gained tokens, or -1
    events,     \* InMemoryReputationRepository.events: the ledger, in order
    reputation, \* InMemoryReputationRepository.reputation: user -> points
    rec,        \* the RecordReputationEvent calls: process -> position, arguments, result
    val,        \* the last InviteService.ValidateInvite call: arguments and result
    web,        \* the last HTTP request served by the Router and its response
    limiters,   \* the buckets of LoginRateLimiter and RegisterRateLimiter
    out         \* AuthHandler.Register's response to each Register call

idVars  == <<invites, users, reg, uses>>
tokVars == <<revoked, minted, ref, login>>
rlVars  == <<rate, interval, capacity, buckets, mu, call, nextSweep, obs,
            unswept, gained>>
repVars == <<events, reputation, rec>>
edgeVars == <<val, web, limiters, out>>
vars    == <<now, invites, users, reg, uses, revoked, minted, ref, login,
             rate, interval, capacity, buckets, mu, call, nextSweep, obs, unswept, gained,
             events, reputation, rec, val, web,
             limiters, out>>

---------------------------------------------------------------------------
(* Characters and sample strings                                           *)

Lower  == {"a","b","c","d","e","f","g","h","i","j","k","l","m",
           "n","o","p","q","r","s","t","u","v","w","x","y","z"}
Upper  == {"A","B","C","D","E","F","G","H","I","J","K","L","M",
           "N","O","P","Q","R","S","T","U","V","W","X","Y","Z"}
Digits == {"0","1","2","3","4","5","6","7","8","9"}
Letters == Lower \cup Upper

\* handleRegex = ^[a-zA-Z0-9_]+$
handleRegex(s) ==
    /\ Len(s) >= 1
    /\ \A k \in 1..Len(s) : s[k] \in Letters \cup Digits \cup {"_"}

\* emailRegex = ^[a-zA-Z0-9._%+-]+@[a-zA-Z0-9.-]+\.[a-zA-Z]{2,}$
emailRegex(s) ==
    \E i \in 1..Len(s), j \in 1..Len(s) :
        /\ 1 < i /\ i + 1 < j /\ j + 2 <= Len(s)
        /\ s[i] = "@" /\ s[j] = "."
        /\ \A k \in 1..(i-1) : s[k] \in Letters \cup Digits \cup {".","_","%","+","-"}
        /\ \A k \in (i+1)..(j-1) : s[k] \in Letters \cup Digits \cup {".","-"}
        /\ \A k \in (j+1)..Len(s) : s[k] \in Letters

ErrInvalidInviteCode      == "invalid invite code"
ErrInviteExpired          == "invite has expired"
ErrInviteExhausted        == "invite has reached maximum uses"
ErrInviteNotFound         == "invite not found"
ErrInvalidEmailFormat     == "invalid email format"
ErrPasswordTooShort       == "password must be at least 8 characters"
ErrPasswordTooWeak        == "password must contain at least one letter and one number"
ErrHandleTooShort         == "handle must be at least 3 characters"
ErrHandleTooLong          == "handle must be 20 characters or less"
ErrHandleInvalidChars     == "handle can only contain letters, numbers, and underscores"
ErrEmailAlreadyRegistered == "email already registered"
ErrHandleAlreadyTaken     == "handle already taken"
ErrUserNotFound           == "user not found"
ErrInvalidCredentials     == "invalid credentials"
ErrTokenRevoked           == "token revoked"
ErrTokenExpired           == "token expired"
ErrTokenInvalid           == "invalid token"
\* errors wrapped with fmt.Errorf by the service
ErrHashFailed             == "failed to hash password"
ErrCreateFailed           == "failed to create user"
ErrCheckRevocationFailed  == "failed to check token revocation"
ErrRevokeFailed           == "failed to revoke old token"
ErrGenerateAccessFailed   == "failed to generate access token"
ErrGenerateRefreshFailed  == "failed to generate refresh token"
Nil == "nil"

\* Service.validateEmail
validateEmail(email) ==
    IF ~emailRegex(email) THEN ErrInvalidEmailFormat ELSE Nil

\* Service.validatePassword
validatePassword(password) ==
    IF Len(password) < 8 THEN ErrPasswordTooShort ELSE Nil

\* Service.validateHandle
validateHandle(handle) ==
    IF Len(handle) < 3 THEN ErrHandleTooShort
    ELSE IF Len(handle) > 20 THEN ErrHandleTooLong
    ELSE IF ~handleRegex(handle) THEN ErrHandleInvalidChars
    ELSE Nil

\* A hasher whose Compare accepts every password.
CompareAnything(hashedPassword, password) == Nil

\* BcryptPasswordHasher.Hash / Compare of the acceptance harness
Hash(password) == <<"hashed_">> \o password
Compare(hashedPassword, password) ==
    IF hashedPassword = Hash(password) THEN Nil ELSE ErrInvalidCredentials

---------------------------------------------------------------------------
(* Inputs                                                                  *)

Email1 == <<"a","@","b",".","i","o">>
Email2 == <<"c","@","b",".","i","o">>
EmailBad == <<"a","@","b">>
Emails == {Email1, Email2, EmailBad}

PwGood  == <<"p","a","s","s","w","o","r","1">>
PwShort == <<"p","a","s","1">>
Passwords == {PwGood, PwShort}
\* Passwords of eight characters without a digit and without a letter.
PwNoDigit  == <<"p","a","s","s","w","o","r","d">>
PwNoLetter == <<"1","2","3","4","5","6","7","8">>
RegisterPasswords == Passwords \cup {PwNoDigit, PwNoLetter}

Handle1 == <<"b","o","b">>
Handle2 == <<"a","m","y","_","1">>
HandleShort == <<"a","b">>
HandleBad == <<"a","-","b">>
Handles == {Handle1, Handle2, HandleShort, HandleBad}

Code1 == "INV1"
CodeMissing == "NOPE"
Codes == {Code1, CodeMissing}

\* Largest max_uses an invite of the initial store is given.
MaxMaxUses == 1
\* CreateInvite's default lifetime, 7 * 24 * time.Hour, in minutes
InviteTTL == 10080
InviteExpiries == {1, InviteTTL}
RegisterTimes == {0, 2, InviteTTL + 1}
\* Direct UseInvite calls made besides the registrations.
MaxUseCalls == 1

RegProcs == {"r1", "r2"}

---------------------------------------------------------------------------
(* Invite and user stores (the in-memory repositories)                     *)

\* What FindByCode's caller holds when the lookup returned an error.
NoInvite == [Code |-> "", MaxUses |-> 0, UsedCount |-> 0, ExpiresAt |-> 0]

\* InMemoryInviteRepository.FindByCode
FindByCode(store, code) ==
    IF code \in DOMAIN store THEN store[code] ELSE NoInvite

\* An invite store that counts every use twice.
IncrementUsageTwice(store, code) ==
    IF code \in DOMAIN store
    THEN [store EXCEPT ![code].UsedCount = @ + 2]
    ELSE store

\* InMemoryInviteRepository.IncrementUsage: invite.UsedCount++ under the lock
IncrementUsage(store, code) ==
    IF code \in DOMAIN store
    THEN [store EXCEPT ![code].UsedCount = @ + 1]
    ELSE store

\* InMemoryUserRepository.FindByEmail
FindByEmail(store, email) == {u \in store : u.Email = email}

\* InMemoryUserRepository.FindByHandle
FindByHandle(store, handle) == {u \in store : u.Handle = handle}

\* InMemoryUserRepository.Create: r.users[user.ID] = user
Create(store, user) == {u \in store : u.ID # user.ID} \cup {user}

\* Register's invite checks, lines 109-122, on the invite FindByCode returned
inviteError(invite, t) ==
    IF invite = NoInvite THEN ErrInvalidInviteCode
    ELSE IF t > invite.ExpiresAt THEN ErrInviteExpired
    ELSE IF invite.MaxUses > 0 /\ invite.UsedCount >= invite.MaxUses
         THEN ErrInviteExhausted
    ELSE Nil

\* A Register that validates the formats before it looks at the invite.
preflightErrorFormatsFirst(invite, t, email, password, handle) ==
    IF validateEmail(email) # Nil THEN validateEmail(email)
    ELSE IF validatePassword(password) # Nil THEN validatePassword(password)
    ELSE IF validateHandle(handle) # Nil THEN validateHandle(handle)
    ELSE inviteError(invite, t)

\* The first error of Register's steps before the user store is consulted.
preflightError(invite, t, email, password, handle) ==
    IF inviteError(invite, t) # Nil THEN inviteError(invite, t)
    ELSE IF validateEmail(email) # Nil THEN validateEmail(email)
    ELSE IF validatePassword(password) # Nil THEN validatePassword(password)
    ELSE validateHandle(handle)

IdleReg == [pc |-> "idle", email |-> <<>>, password |-> <<>>, handle |-> <<>>,
            code |-> Nil, err |-> Nil, faults |-> {}]

InitId ==
    /\ \E m \in 0..MaxMaxUses, e \in InviteExpiries :
          invites = [c \in {Code1} |->
                       [Code |-> c, MaxUses |-> m, UsedCount |-> 0, ExpiresAt |-> e]]
    /\ users = {}
    /\ reg = [p \in RegProcs |-> IdleReg]
    /\ uses = 0

\* Register, lines 109-137: resolve the invite, check it, validate the formats.
\* faults names the repository and hasher calls that failed during the call.
RegisterPreflight(p, email, password, handle, code, down) ==
    /\ reg[p].pc = "idle"
    /\ LET invite == IF down THEN NoInvite ELSE FindByCode(invites, code)
           e == preflightError(invite, now, email, password, handle)
       IN  reg' = [reg EXCEPT ![p] =
                     [pc |-> IF e # Nil THEN "done" ELSE "email",
                      email |-> email, password |-> password, handle |-> handle,
                      code |-> code, err |-> e,
                      faults |-> IF down THEN {"code"} ELSE {}]]
    /\ UNCHANGED <<now, invites, users, uses, tokVars, rlVars, repVars, edgeVars>>

\* Register, lines 140-143: a lookup error of any kind counts as "no such user".
RegisterCheckEmail(p, down) ==
    /\ reg[p].pc = "email"
    /\ LET found == IF down THEN {} ELSE FindByEmail(users, reg[p].email)
       IN  reg' = [reg EXCEPT ![p] =
                     IF found # {}
                     THEN [@ EXCEPT !.pc = "done", !.err = ErrEmailAlreadyRegistered]
                     ELSE [@ EXCEPT !.pc = "handle",
                                    !.faults = IF down THEN @ \cup {"email"} ELSE @]]
    /\ UNCHANGED <<now, invites, users, uses, tokVars, rlVars, repVars, edgeVars>>

\* Service.isHandleAvailable: any error of FindByHandle means available.
isHandleAvailable(store, handle, down) ==
    down \/ FindByHandle(store, handle) = {}

\* Register, lines 146-158: handle uniqueness, then the password hash.
RegisterCheckHandle(p, down, hashFails) ==
    /\ reg[p].pc = "handle"
    /\ LET seen == IF down THEN reg[p].faults \cup {"handle"} ELSE reg[p].faults
       IN  reg' = [reg EXCEPT ![p] =
                     IF ~isHandleAvailable(users, reg[p].handle, down)
                     THEN [@ EXCEPT !.pc = "done", !.err = ErrHandleAlreadyTaken]
                     ELSE IF hashFails
                     THEN [@ EXCEPT !.pc = "done", !.err = ErrHashFailed,
                                    !.faults = seen \cup {"hash"}]
                     ELSE [@ EXCEPT !.pc = "create", !.faults = seen]]
    /\ UNCHANGED <<now, invites, users, uses, tokVars, rlVars, repVars, edgeVars>>

\* The User Register builds, lines 161-167; uuid.New() is unique per call.
NewUser(p) ==
    [ID |-> p, Email |-> reg[p].email, Handle |-> reg[p].handle,
     PasswordHash |-> Hash(reg[p].password), Reputation |-> 0]

\* Register, lines 169-171: store the user.
RegisterCreate(p, down) ==
    /\ reg[p].pc = "create"
    /\ IF down
       THEN /\ reg' = [reg EXCEPT ![p].pc = "done", ![p].err = ErrCreateFailed,
                                  ![p].faults = @ \cup {"create"}]
            /\ users' = users
       ELSE /\ users' = Create(users, NewUser(p))
            /\ reg' = [reg EXCEPT ![p].pc = "increment"]
    /\ UNCHANGED <<now, invites, uses, tokVars, rlVars, repVars, edgeVars>>

\* A Register that answers a failed usage update by removing the user and
\* returning the error.
RegisterIncrementRolledBack(p, down) ==
    /\ reg[p].pc = "increment"
    /\ invites' = IF down THEN invites ELSE IncrementUsage(invites, reg[p].code)
    /\ users' = IF down THEN {u \in users : u.ID # p} ELSE users
    /\ reg' = [reg EXCEPT ![p].pc = "done",
                          ![p].err = IF down THEN "failed to track invite usage" ELSE @,
                          ![p].faults = IF down THEN @ \cup {"increment"} ELSE @]
    /\ UNCHANGED <<now, uses, tokVars, rlVars, repVars, edgeVars>>

\* Register, lines 173-179: count the use, ignore a failure, return the user.
RegisterIncrement(p, down) ==
    /\ reg[p].pc = "increment"
    /\ invites' = IF down THEN invites ELSE IncrementUsage(invites, reg[p].code)
    /\ reg' = [reg EXCEPT ![p].pc = "done",
                          ![p].faults = IF down THEN @ \cup {"increment"} ELSE @]
    /\ UNCHANGED <<now, users, uses, tokVars, rlVars, repVars, edgeVars>>

\* InviteService.UseInvite
UseInvite(code) ==
    /\ uses < MaxUseCalls
    /\ uses' = uses + 1
    /\ invites' = IncrementUsage(invites, code)
    /\ UNCHANGED <<now, users, reg, tokVars, rlVars, repVars, edgeVars>>

TickRegister ==
    /\ \E t \in RegisterTimes : t > now /\ now' = t
    /\ UNCHANGED <<idVars, tokVars, rlVars, repVars, edgeVars>>


---------------------------------------------------------------------------
(* Tokens (JWTService) and the revocation store                            *)

\* GenerateAccessToken: 15 * time.Minute
AccessTTL == 15
\* GenerateRefreshToken: 7 * 24 * time.Hour, in minutes
RefreshTTL == 10080
TokenTimes == {0, AccessTTL + 1, RefreshTTL + 1}
\* Login calls made.
MaxLogins == 1

RefProcs == {"f1", "f2"}
ServerSecret == "server-secret"

\* The errors ValidateToken builds with errors.New (jwt.go lines 72-101); they
\* are values of their own, not the identity package's sentinels.
jwtTokenExpired  == "auth: token expired"
jwtInvalidToken  == "auth: invalid token"
jwtInvalidUserID == "auth: invalid user_id claim"

\* JWTService.generateTokenWithExpiry; uuid.New() gives every token its own jti.
\* Use records what the token was issued as; no claim of the token carries it.
generateTokenWithExpiry(userID, duration, t, jti, use) ==
    [UserID |-> userID, IssuedAt |-> t, ExpiresAt |-> t + duration,
     TokenID |-> jti, Secret |-> ServerSecret, Use |-> use]

\* JWTService.ValidateToken: signature first, then expiry, then the user_id claim.
ValidateToken(token, t) ==
    IF token.Secret # ServerSecret THEN jwtInvalidToken
    ELSE IF t > token.ExpiresAt THEN jwtTokenExpired
    ELSE IF token.UserID = "" THEN jwtInvalidUserID
    ELSE Nil

\* A token signed with another secret, and one of ours without a user_id.
ForgedToken == [UserID |-> "u1", IssuedAt |-> 0, ExpiresAt |-> RefreshTTL,
                TokenID |-> 0, Secret |-> "other-secret", Use |-> "refresh"]
AnonymousToken == [UserID |-> "", IssuedAt |-> 0, ExpiresAt |-> RefreshTTL,
                   TokenID |-> 0, Secret |-> ServerSecret, Use |-> "refresh"]

\* A revocation store that reports no token as revoked.
IsRevokedNever(store, token) == FALSE

\* A revocation store whose Revoke records nothing.
RevokeNothing(store, token) == store

\* InMemoryRefreshTokenRepository.IsRevoked
IsRevoked(store, token) == token \in store

\* InMemoryRefreshTokenRepository.Revoke
Revoke(store, token) == store \cup {token}

NextJti == Cardinality(minted) + 1

NoToken == [UserID |-> "", IssuedAt |-> 0, ExpiresAt |-> 0,
            TokenID |-> 0, Secret |-> "", Use |-> ""]
\* The nil *AuthResponse returned with an error.
NoResponse == [AccessToken |-> NoToken, RefreshToken |-> NoToken]

IdleRef == [pc |-> "idle", token |-> NoToken, userID |-> "", at |-> 0, late |-> FALSE,
            accessToken |-> NoToken, err |-> Nil, resp |-> NoResponse]

SeedUser == [ID |-> "u1", Email |-> Email1, Handle |-> Handle1,
             PasswordHash |-> Hash(PwGood), Reputation |-> 0]

\* RefreshTokens has returned a new pair for this token.
Rotated(token) ==
    \E q \in RefProcs :
        ref[q].pc = "done" /\ ref[q].err = Nil /\ ref[q].token = token

InitTok ==
    /\ revoked = {}
    /\ minted = {}
    /\ ref = [p \in RefProcs |-> IdleRef]
    /\ login = [calls |-> 0, email |-> <<>>, password |-> <<>>, compared |-> FALSE,
                err |-> Nil, resp |-> NoResponse]

\* Service.Login, lines 218-239.  FindByEmail returns the first match of a map
\* iteration; any lookup error is answered like an unknown email.
Login(email, password, down, accessFails, refreshFails) ==
    /\ login.calls < MaxLogins
    /\ LET found == IF down THEN {} ELSE FindByEmail(users, email)
           base  == [calls |-> login.calls + 1, email |-> email,
                     password |-> password, compared |-> FALSE,
                     err |-> Nil, resp |-> NoResponse]
       IN  IF found = {}
           THEN /\ login' = [base EXCEPT !.err = ErrInvalidCredentials]
                /\ minted' = minted
           ELSE \E user \in found :
                  LET access  == generateTokenWithExpiry(user.ID, AccessTTL, now,
                                                         NextJti, "access")
                      refresh == generateTokenWithExpiry(user.ID, RefreshTTL, now,
                                                         NextJti + 1, "refresh")
                  IN  IF Compare(user.PasswordHash, password) # Nil
                      THEN /\ login' = [base EXCEPT !.compared = TRUE,
                                                    !.err = ErrInvalidCredentials]
                           /\ minted' = minted
                      ELSE IF accessFails
                      THEN /\ login' = [base EXCEPT !.compared = TRUE,
                                                    !.err = ErrGenerateAccessFailed]
                           /\ minted' = minted
                      ELSE IF refreshFails
                      THEN /\ login' = [base EXCEPT !.compared = TRUE,
                                                    !.err = ErrGenerateRefreshFailed]
                           /\ minted' = minted \cup {access}
                      ELSE /\ login' = [base EXCEPT !.compared = TRUE,
                                          !.resp = [AccessToken |-> access,
                                                    RefreshToken |-> refresh]]
                           /\ minted' = minted \cup {access, refresh}
    /\ UNCHANGED <<now, idVars, revoked, ref, rlVars, repVars, edgeVars>>

\* RefreshTokens, lines 242-245: JWTTokenValidator.ValidateRefreshToken.
RefreshValidate(p, token) ==
    /\ ref[p].pc = "idle"
    /\ LET e == ValidateToken(token, now)
       IN  ref' = [ref EXCEPT ![p] =
                     [IdleRef EXCEPT !.pc = IF e = Nil THEN "check" ELSE "done",
                                     !.token = token, !.err = e, !.at = now,
                                     !.userID = IF e = Nil THEN token.UserID ELSE "",
                                     !.late = Rotated(token)]]
    /\ UNCHANGED <<now, idVars, revoked, minted, login, rlVars, repVars, edgeVars>>

\* RefreshTokens, lines 247-253: ask the revocation store.
RefreshCheckRevoked(p, down) ==
    /\ ref[p].pc = "check"
    /\ ref' = [ref EXCEPT ![p] =
                 IF down THEN [@ EXCEPT !.pc = "done", !.err = ErrCheckRevocationFailed]
                 ELSE IF IsRevoked(revoked, ref[p].token)
                 THEN [@ EXCEPT !.pc = "done", !.err = ErrTokenRevoked]
                 ELSE [@ EXCEPT !.pc = "revoke"]]
    /\ UNCHANGED <<now, idVars, revoked, minted, login, rlVars, repVars, edgeVars>>

\* RefreshTokens, lines 255-258: revoke the presented token.
RefreshRevoke(p, down) ==
    /\ ref[p].pc = "revoke"
    /\ IF down
       THEN /\ ref' = [ref EXCEPT ![p].pc = "done", ![p].err = ErrRevokeFailed]
            /\ revoked' = revoked
       ELSE /\ revoked' = Revoke(revoked, ref[p].token)
            /\ ref' = [ref EXCEPT ![p].pc = "access"]
    /\ UNCHANGED <<now, idVars, minted, login, rlVars, repVars, edgeVars>>

\* RefreshTokens, lines 260-264: the new access token.
RefreshGenerateAccess(p, fails) ==
    /\ ref[p].pc = "access"
    /\ IF fails
       THEN /\ ref' = [ref EXCEPT ![p].pc = "done", ![p].err = ErrGenerateAccessFailed]
            /\ minted' = minted
       ELSE LET tok == generateTokenWithExpiry(ref[p].userID, AccessTTL, now,
                                               NextJti, "access")
            IN  /\ minted' = minted \cup {tok}
                /\ ref' = [ref EXCEPT ![p].pc = "refresh", ![p].accessToken = tok]
    /\ UNCHANGED <<now, idVars, revoked, login, rlVars, repVars, edgeVars>>

\* RefreshTokens, lines 266-271: the new refresh token, and the response.
RefreshGenerateRefresh(p, fails) ==
    /\ ref[p].pc = "refresh"
    /\ IF fails
       THEN /\ ref' = [ref EXCEPT ![p].pc = "done", ![p].err = ErrGenerateRefreshFailed]
            /\ minted' = minted
       ELSE LET tok == generateTokenWithExpiry(ref[p].userID, RefreshTTL, now,
                                               NextJti, "refresh")
            IN  /\ minted' = minted \cup {tok}
                /\ ref' = [ref EXCEPT ![p].pc = "done",
                                      ![p].resp = [AccessToken |-> ref[p].accessToken,
                                                   RefreshToken |-> tok]]
    /\ UNCHANGED <<now, idVars, revoked, login, rlVars, repVars, edgeVars>>

TickToken ==
    /\ \E t \in TokenTimes : t > now /\ now' = t
    /\ UNCHANGED <<idVars, tokVars, rlVars, repVars, edgeVars>>

---------------------------------------------------------------------------
(* RateLimiter                                                             *)

Keys == {"k1", "k2"}
Callers == {"c1", "c2"}
Free == "free"

\* Largest rate a limiter is built with.
MaxRate == 1
Rates == 0..MaxRate
\* The limiter's clock counts periods of 5 minutes, the period of the cleanup
\* ticker.  Refill intervals a limiter is built with: 15 minutes
\* (LoginRateLimiter) and one hour (RegisterRateLimiter).
Intervals == {3, 12}
\* The clock of the limiter runs from 0 to MaxTime.
MaxTime == 3
\* cleanup: time.NewTicker(5 * time.Minute)
CleanupPeriod == 1
\* cleanup: now.Sub(bucket.lastCheck) > 10 * time.Minute
CleanupIdle == 2

Min(a, b) == IF a < b THEN a ELSE b

NoBucket == [exists |-> FALSE, tokens |-> 0, lastCheck |-> 0]

\* Allow, lines 72-78: the tokens of an existing bucket after the refill.
refill(bucket, t) ==
    LET tokensToAdd == ((t - bucket.lastCheck) \div interval) * rate
    IN  Min(bucket.tokens + tokensToAdd, capacity)

\* Allow's answer for the bucket it finds, lines 64-86.
allowed(bucket, t) ==
    IF ~bucket.exists THEN TRUE ELSE refill(bucket, t) > 0

\* The bucket Allow leaves, lines 64-86.
bucketAfter(bucket, t) ==
    IF ~bucket.exists
    THEN [exists |-> TRUE, tokens |-> capacity - 1, lastCheck |-> t]
    ELSE [exists |-> TRUE,
          tokens |-> IF refill(bucket, t) > 0 THEN refill(bucket, t) - 1
                     ELSE refill(bucket, t),
          lastCheck |-> t]

\* An Allow that writes the bucket of every key, not only the one it was asked.
AllowEveryKey(bs, key, t) == [k \in Keys |-> bucketAfter(bs[k], t)]

\* RateLimiter.Allow's effect on rl.buckets.
Allow(bs, key, t) == [bs EXCEPT ![key] = bucketAfter(bs[key], t)]

\* RateLimiter.cleanup's loop body, lines 45-51.
cleanup(bs, t) ==
    [k \in Keys |->
        IF bs[k].exists /\ t - bs[k].lastCheck > CleanupIdle THEN NoBucket ELSE bs[k]]

\* What the clients of a key have seen: the calls and grants since the key was
\* first used (while less than one interval has passed), and the calls and
\* grants of the burst that follows an idle period on a drained bucket.
NoObs == [first |-> -1, asked |-> 0, granted |-> 0,
          last |-> -1, drained |-> FALSE,
          burstAt |-> -1, burstBudget |-> 0, burstAsked |-> 0, burstGranted |-> 0]

observe(o, ok, tokensAfter, t) ==
    LET one == IF ok THEN 1 ELSE 0
        sat(n) == Min(n, capacity + 1)
        opening == o.first = -1
        inWindow == o.first >= 0 /\ t - o.first < interval
        idle == t - o.last
        newBurst == o.last >= 0 /\ o.drained /\ idle >= interval
        inBurst == o.burstAt >= 0 /\ t - o.burstAt < interval
    IN  [first   |-> IF opening THEN t ELSE IF inWindow THEN o.first ELSE -2,
         asked   |-> IF opening THEN 1 ELSE IF inWindow THEN sat(o.asked + 1) ELSE 0,
         granted |-> IF opening THEN one ELSE IF inWindow THEN sat(o.granted + one) ELSE 0,
         last    |-> t,
         drained |-> tokensAfter <= 0,
         burstAt      |-> IF newBurst THEN t ELSE IF inBurst THEN o.burstAt ELSE -1,
         burstBudget  |-> IF newBurst THEN Min(capacity, (idle \div interval) * rate)
                          ELSE IF inBurst THEN o.burstBudget ELSE 0,
         burstAsked   |-> IF newBurst THEN 1
                          ELSE IF inBurst THEN sat(o.burstAsked + 1) ELSE 0,
         burstGranted |-> IF newBurst THEN one
                          ELSE IF inBurst THEN sat(o.burstGranted + one) ELSE 0]

IdleCall == [pc |-> "idle", key |-> Nil]

\* NewRateLimiter
InitRl ==
    /\ rate \in Rates
    /\ interval \in Intervals
    /\ capacity = rate * 2
    /\ buckets = [k \in Keys |-> NoBucket]
    /\ mu = Free
    /\ call = [c \in Callers |-> IdleCall]
    /\ nextSweep = CleanupPeriod
    /\ obs = [k \in Keys |-> NoObs]
    /\ unswept = [k \in Keys |-> NoBucket]
    /\ gained = [k \in Keys |-> -1]

\* A caller enters Allow(key) and reaches rl.mu.Lock().
AllowCall(c, key) ==
    /\ call[c].pc = "idle"
    /\ call' = [call EXCEPT ![c] = [pc |-> "lock", key |-> key]]
    /\ UNCHANGED <<now, idVars, tokVars, rate, interval, capacity, buckets, mu,
                   nextSweep, obs, unswept, gained, repVars, edgeVars>>

\* rl.mu.Lock() returns.
AllowLock(c) ==
    /\ call[c].pc = "lock"
    /\ mu = Free
    /\ mu' = c
    /\ call' = [call EXCEPT ![c].pc = "held"]
    /\ UNCHANGED <<now, idVars, tokVars, rate, interval, capacity, buckets,
                   nextSweep, obs, unswept, gained, repVars, edgeVars>>

\* Allow, lines 61-87, under the lock; the deferred Unlock runs on return.
AllowBody(c) ==
    /\ call[c].pc = "held"
    /\ mu = c
    /\ LET key == call[c].key
           ok  == allowed(buckets[key], now)
       IN  /\ buckets' = Allow(buckets, key, now)
           /\ call' = [call EXCEPT ![c] = IdleCall]
           /\ obs' = [obs EXCEPT ![key] =
                        observe(@, ok, bucketAfter(buckets[key], now).tokens, now)]
    /\ mu' = Free
    /\ UNCHANGED <<now, idVars, tokVars, rate, interval, capacity, nextSweep,
                   unswept, gained, repVars, edgeVars>>

\* A sweep that does not take rl.mu.
CleanupWithoutLock ==
    /\ nextSweep <= now
    /\ buckets' = cleanup(buckets, now)
    /\ nextSweep' = nextSweep + CleanupPeriod
    /\ UNCHANGED <<now, idVars, tokVars, rate, interval, capacity, mu, call, obs,
                   unswept, gained, repVars, edgeVars>>

\* One round of the cleanup goroutine's loop, lines 43-53, under the lock.
Cleanup ==
    /\ nextSweep <= now
    /\ mu = Free
    /\ buckets' = cleanup(buckets, now)
    /\ nextSweep' = nextSweep + CleanupPeriod
    /\ UNCHANGED <<now, idVars, tokVars, rate, interval, capacity, mu, call, obs,
                   unswept, gained, repVars, edgeVars>>

\* Five minutes pass; a tick of the cleanup ticker is served before the next.
TickLimiter ==
    /\ now < MaxTime
    /\ now < nextSweep
    /\ now' = now + 1
    /\ UNCHANGED <<idVars, tokVars, rlVars, repVars, edgeVars>>

\* Allow in two steps.  Lines 61-62, under the lock: the call reads the clock
\* and looks its key up in rl.buckets; `seen` is the bucket it found.
AllowRead(c) ==
    /\ call[c].pc = "held"
    /\ mu = c
    /\ call' = [call EXCEPT ![c] = [pc |-> "read", key |-> call[c].key,
                                     seen |-> buckets[call[c].key], at |-> now]]
    /\ UNCHANGED <<now, idVars, tokVars, rate, interval, capacity, buckets, mu,
                   nextSweep, obs, unswept, gained, repVars, edgeVars>>

\* When the bucket the call found last gained tokens: lines 65-68 fill a new
\* bucket, lines 74-75 add tokensToAdd to a bucket that exists.
gainedAfter(g, seen, t) ==
    IF ~seen.exists \/ refill(seen, t) > seen.tokens THEN t ELSE g

\* Lines 64-87 and the deferred Unlock.  A key that was not found is put into
\* the map (line 65); a bucket that was found is updated through the pointer
\* read at line 62 (lines 73-82), which changes the map's bucket only if the
\* map still holds it.
AllowWrite(c) ==
    /\ call[c].pc = "read"
    /\ mu = c
    /\ LET key  == call[c].key
           seen == call[c].seen
           t    == call[c].at
       IN  /\ buckets' = IF ~seen.exists
                          THEN [buckets EXCEPT ![key] = bucketAfter(NoBucket, t)]
                          ELSE IF buckets[key].exists THEN Allow(buckets, key, t)
                          ELSE buckets
           /\ unswept' = Allow(unswept, key, t)
           /\ gained' = [gained EXCEPT ![key] = gainedAfter(@, seen, t)]
    /\ call' = [call EXCEPT ![c] = IdleCall]
    /\ mu' = Free
    /\ UNCHANGED <<now, idVars, tokVars, rate, interval, capacity, nextSweep, obs,
                   repVars, edgeVars>>

---------------------------------------------------------------------------
(* ReputationService and the reputation ledger                             *)

ErrInvalidEventType     == "invalid reputation event type"
ErrDuplicateEvent       == "reputation event already recorded"
ErrInvalidPointsValue   == "invalid points value for event type"
ErrSelfReputation       == "cannot modify own reputation"
\* errors wrapped with fmt.Errorf by the service
ErrCheckDuplicateFailed == "failed to check for duplicate event"
ErrRecordEventFailed    == "failed to record reputation event"

EventMessagePosted    == "message_posted"
EventMessageUpvoted   == "message_upvoted"
EventMessageDownvoted == "message_downvoted"
EventInviteUsed       == "invite_used"
EventReportedAbuse    == "reported_abuse"
EventModeratorAction  == "moderator_action"

\* ReputationPointLimits
ReputationPointLimits ==
    [t \in {EventMessagePosted, EventMessageUpvoted, EventMessageDownvoted,
            EventInviteUsed, EventReportedAbuse, EventModeratorAction} |->
        CASE t = EventMessagePosted    -> [Min |-> 1,    Max |-> 5]
          [] t = EventMessageUpvoted   -> [Min |-> 1,    Max |-> 10]
          [] t = EventMessageDownvoted -> [Min |-> -10,  Max |-> -1]
          [] t = EventInviteUsed       -> [Min |-> 5,    Max |-> 20]
          [] t = EventReportedAbuse    -> [Min |-> -50,  Max |-> -10]
          [] t = EventModeratorAction  -> [Min |-> -100, Max |-> 100]]

\* A validation that reads the limits as an open range.
ValidateReputationEventOpenRange(eventType, points) ==
    IF eventType \notin DOMAIN ReputationPointLimits THEN ErrInvalidEventType
    ELSE IF \/ points <= ReputationPointLimits[eventType].Min
            \/ points >= ReputationPointLimits[eventType].Max
         THEN ErrInvalidPointsValue
    ELSE Nil

\* ValidateReputationEvent
ValidateReputationEvent(eventType, points) ==
    IF eventType \notin DOMAIN ReputationPointLimits THEN ErrInvalidEventType
    ELSE IF \/ points < ReputationPointLimits[eventType].Min
            \/ points > ReputationPointLimits[eventType].Max
         THEN ErrInvalidPointsValue
    ELSE Nil

\* The arguments RecordReputationEvent is called with.
RepUsers   == {"u1", "u2"}
RepCallers == {"u1"}
EventTypes == {EventMessageUpvoted, EventModeratorAction, "bogus"}
Points     == {1, 10, 11, -1}
RefIDs     == {"", "m1"}
RecProcs   == {"e1", "e2"}

\* A ledger that never reports an event as recorded.
HasRecordedEventNever(ledger, userID, eventType, refID) == FALSE

\* InMemoryReputationRepository.HasRecordedEvent
HasRecordedEvent(ledger, userID, eventType, refID) ==
    \E i \in 1..Len(ledger) :
        /\ ledger[i].UserID = userID
        /\ ledger[i].EventType = eventType
        /\ ledger[i].RefID = refID

\* InMemoryReputationRepository.GetReputation
GetReputation(rep, userID) == rep[userID]

\* The checks with the validation run before the self check.
recordErrorValidatesFirst(ledger, callerID, targetUserID, eventType, points, refID, down) ==
    IF ValidateReputationEvent(eventType, points) # Nil
    THEN ValidateReputationEvent(eventType, points)
    ELSE IF callerID = targetUserID /\ eventType # EventModeratorAction
    THEN ErrSelfReputation
    ELSE IF refID # "" /\ down THEN ErrCheckDuplicateFailed
    ELSE IF refID # "" /\ HasRecordedEvent(ledger, targetUserID, eventType, refID)
    THEN ErrDuplicateEvent
    ELSE Nil

\* RecordReputationEvent, lines 49-67: what the checks before the append return.
recordError(ledger, callerID, targetUserID, eventType, points, refID, down) ==
    IF callerID = targetUserID /\ eventType # EventModeratorAction
    THEN ErrSelfReputation
    ELSE IF ValidateReputationEvent(eventType, points) # Nil
    THEN ValidateReputationEvent(eventType, points)
    ELSE IF refID # "" /\ down THEN ErrCheckDuplicateFailed
    ELSE IF refID # "" /\ HasRecordedEvent(ledger, targetUserID, eventType, refID)
    THEN ErrDuplicateEvent
    ELSE Nil

IdleRec == [pc |-> "idle", caller |-> "", target |-> "", eventType |-> "",
            points |-> 0, refID |-> "", err |-> Nil, late |-> FALSE]

\* An earlier call with the same arguments has recorded its event.
Recorded(callerID, targetUserID, eventType, points, refID) ==
    \E q \in RecProcs :
        /\ rec[q].pc = "done" /\ rec[q].err = Nil
        /\ rec[q].caller = callerID /\ rec[q].target = targetUserID
        /\ rec[q].eventType = eventType /\ rec[q].points = points
        /\ rec[q].refID = refID

\* NewInMemoryReputationRepository
InitRep ==
    /\ events = <<>>
    /\ reputation = [u \in RepUsers |-> 0]
    /\ rec = [p \in RecProcs |-> IdleRec]

\* RecordReputationEvent, lines 47-67: self check, validation, duplicate check.
RecordCheck(p, callerID, targetUserID, eventType, points, refID, down) ==
    /\ rec[p].pc = "idle"
    /\ LET e == recordError(events, callerID, targetUserID, eventType, points,
                            refID, down)
       IN  rec' = [rec EXCEPT ![p] =
                     [pc |-> IF e # Nil THEN "done" ELSE "record",
                      caller |-> callerID, target |-> targetUserID,
                      eventType |-> eventType, points |-> points, refID |-> refID,
                      err |-> e,
                      late |-> Recorded(callerID, targetUserID, eventType, points,
                                        refID)]]
    /\ UNCHANGED <<now, idVars, tokVars, rlVars, events, reputation, edgeVars>>

\* An append that puts the event in the ledger and leaves the score alone.
RecordAppendKeepsScore(p, down) ==
    /\ rec[p].pc = "record"
    /\ IF down
       THEN /\ rec' = [rec EXCEPT ![p].pc = "done", ![p].err = ErrRecordEventFailed]
            /\ UNCHANGED <<events, reputation>>
       ELSE /\ events' = Append(events, [UserID |-> rec[p].target,
                                         EventType |-> rec[p].eventType,
                                         Points |-> rec[p].points,
                                         RefID |-> rec[p].refID])
            /\ rec' = [rec EXCEPT ![p].pc = "done"]
            /\ UNCHANGED reputation
    /\ UNCHANGED <<now, idVars, tokVars, rlVars, edgeVars>>

\* RecordReputationEvent, lines 69-81, with InMemoryReputationRepository.RecordEvent:
\* the append and the update of the score happen under the repository's lock.
RecordAppend(p, down) ==
    /\ rec[p].pc = "record"
    /\ IF down
       THEN /\ rec' = [rec EXCEPT ![p].pc = "done", ![p].err = ErrRecordEventFailed]
            /\ UNCHANGED <<events, reputation>>
       ELSE /\ events' = Append(events, [UserID |-> rec[p].target,
                                         EventType |-> rec[p].eventType,
                                         Points |-> rec[p].points,
                                         RefID |-> rec[p].refID])
            /\ reputation' = [reputation EXCEPT ![rec[p].target] = @ + rec[p].points]
            /\ rec' = [rec EXCEPT ![p].pc = "done"]
    /\ UNCHANGED <<now, idVars, tokVars, rlVars, edgeVars>>

---------------------------------------------------------------------------
(* InviteService.ValidateInvite                                            *)

ErrCommunityLookupFailed == "community lookup failed"

\* invite.go holds two definitions of ValidateInvite; a build has one of them.
ValidateInviteBuilds == {"invite.go:64", "invite.go:157"}

\* ValidateInvite's checks on the invite it found. The definition at line 64
\* compares UsedCount with MaxUses whatever MaxUses is; the one at line 157
\* does so only for MaxUses > 0. A failed lookup gives the repository's
\* ErrInviteNotFound in both.
validateInviteError(build, invite, t) ==
    IF invite = NoInvite THEN ErrInviteNotFound
    ELSE IF t > invite.ExpiresAt THEN ErrInviteExpired
    ELSE IF build = "invite.go:64" /\ invite.UsedCount >= invite.MaxUses
    THEN ErrInviteExhausted
    ELSE IF build = "invite.go:157" /\ invite.MaxUses > 0
            /\ invite.UsedCount >= invite.MaxUses
    THEN ErrInviteExhausted
    ELSE Nil

NoVal == [called |-> FALSE, build |-> "", code |-> Nil, communityDown |-> FALSE,
          err |-> Nil]

StatusCreated             == 201
StatusBadRequest          == 400
StatusConflict            == 409
StatusInternalServerError == 500

\* AuthHandler.handleRegistrationError
handleRegistrationError(err) ==
    IF err \in {ErrEmailAlreadyRegistered, ErrHandleAlreadyTaken} THEN StatusConflict
    ELSE IF err \in {ErrPasswordTooShort, ErrPasswordTooWeak, ErrInvalidInviteCode,
                     ErrInviteExpired, ErrInviteExhausted, ErrHandleInvalidChars,
                     ErrHandleTooLong, ErrHandleTooShort, ErrInvalidEmailFormat}
    THEN StatusBadRequest
    ELSE StatusInternalServerError

\* The UserResponse of a response that carries none.
NoUserResponse == [ID |-> "", Handle |-> <<>>, Reputation |-> 0]
NoOut == [sent |-> FALSE, status |-> 0, faults |-> {},
          AccessToken |-> NoToken, RefreshToken |-> NoToken,
          User |-> NoUserResponse]

\* A handler that issues the tokens for a fixed user ID.
RegisterRespondForU1(p, accessFails, refreshFails) ==
    /\ reg[p].pc = "done"
    /\ ~out[p].sent
    /\ reg[p].err = Nil
    /\ ~accessFails /\ ~refreshFails
    /\ LET user == CHOOSE u \in users : u.ID = p
           access  == generateTokenWithExpiry("u1", AccessTTL, now, NextJti, "access")
           refresh == generateTokenWithExpiry("u1", RefreshTTL, now, NextJti + 1,
                                              "refresh")
       IN  /\ out' = [out EXCEPT ![p] =
                        [sent |-> TRUE, status |-> StatusCreated, faults |-> {},
                         AccessToken |-> access, RefreshToken |-> refresh,
                         User |-> [ID |-> user.ID, Handle |-> user.Handle,
                                   Reputation |-> user.Reputation]]]
           /\ minted' = minted \cup {access, refresh}
    /\ UNCHANGED <<now, idVars, revoked, ref, login, rlVars, repVars, val, web,
                   limiters>>

\* AuthHandler.Register, lines 114-142, once identityService.Register has
\* returned: the error response, or the two tokens for user.ID and the 201.
RegisterRespond(p, accessFails, refreshFails) ==
    /\ reg[p].pc = "done"
    /\ ~out[p].sent
    /\ IF reg[p].err # Nil
       THEN /\ out' = [out EXCEPT ![p] =
                         [NoOut EXCEPT !.sent = TRUE,
                                       !.status = handleRegistrationError(reg[p].err)]]
            /\ minted' = minted
       ELSE LET user == CHOOSE u \in users : u.ID = p
                access  == generateTokenWithExpiry(user.ID, AccessTTL, now, NextJti,
                                                   "access")
                refresh == generateTokenWithExpiry(user.ID, RefreshTTL, now,
                                                   NextJti + 1, "refresh")
            IN  IF accessFails
                THEN /\ out' = [out EXCEPT ![p] =
                                  [NoOut EXCEPT !.sent = TRUE,
                                                !.status = StatusInternalServerError,
                                                !.faults = {"access"}]]
                     /\ minted' = minted
                ELSE IF refreshFails
                THEN /\ out' = [out EXCEPT ![p] =
                                  [NoOut EXCEPT !.sent = TRUE,
                                                !.status = StatusInternalServerError,
                                                !.faults = {"refresh"}]]
                     /\ minted' = minted \cup {access}
                ELSE /\ out' = [out EXCEPT ![p] =
                                  [sent |-> TRUE, status |-> StatusCreated,
                                   faults |-> {},
                                   AccessToken |-> access, RefreshToken |-> refresh,
                                   User |-> [ID |-> user.ID, Handle |-> user.Handle,
                                             Reputation |-> user.Reputation]]]
                     /\ minted' = minted \cup {access, refresh}
    /\ UNCHANGED <<now, idVars, revoked, ref, login, rlVars, repVars, val, web,
                   limiters>>

\* Router.setupRoutes: the limiter, the authentication wrapper and the handler
\* of each route ("" where the route has no limiter).
RouteTable ==
    [register |-> [limiter |-> "RegisterRateLimiter", auth |-> FALSE,
                   handler |-> "authHandler.Register"],
     login    |-> [limiter |-> "LoginRateLimiter", auth |-> FALSE,
                   handler |-> "authHandler.Login"],
     refresh  |-> [limiter |-> "", auth |-> FALSE,
                   handler |-> "authHandler.Refresh"],
     logout   |-> [limiter |-> "", auth |-> TRUE,
                   handler |-> "authHandler.Logout"],
     me       |-> [limiter |-> "", auth |-> TRUE,
                   handler |-> "userHandler.GetProfile"]]
Routes == DOMAIN RouteTable
RouteLimiters == {"RegisterRateLimiter", "LoginRateLimiter"}

StatusUnauthorized    == 401
StatusTooManyRequests == 429

\* The Authorization headers a request arrives with: none, another scheme,
\* and "Bearer " followed by a token.
NoHeader == [scheme |-> "", token |-> NoToken]
BasicHeader == [scheme |-> "Basic", token |-> NoToken]
Bearer(token) == [scheme |-> "Bearer", token |-> token]
LiveAccessToken == generateTokenWithExpiry("u1", AccessTTL, 0, 1, "access")
LiveRefreshToken == generateTokenWithExpiry("u2", RefreshTTL, 0, 2, "refresh")
ExpiredAccessToken == generateTokenWithExpiry("u1", AccessTTL, -AccessTTL - 1, 3,
                                              "access")
Headers == {NoHeader, BasicHeader} \cup
           {Bearer(t) : t \in {NoToken, LiveAccessToken, LiveRefreshToken,
                               ExpiredAccessToken, ForgedToken, AnonymousToken}}

\* The request state of the Router before any request.
NoRequest == [route |-> "", key |-> "", header |-> NoHeader, asked |-> FALSE,
              status |-> 0, retryAfter |-> "", handler |-> "", userID |-> "",
              body |-> NoToken, revoker |-> FALSE]

InitEdge ==
    /\ val = NoVal
    /\ web = NoRequest
    /\ limiters = [l \in RouteLimiters |-> [k \in Keys |-> NoBucket]]
    /\ out = [p \in RegProcs |-> NoOut]

\* An authentication wrapper that lets every Bearer header through.
withAuthAnyBearer(header, t) == header.scheme = "Bearer"

\* withAuth / AuthMiddleware: the header must start with "Bearer " and the rest
\* must pass ValidateToken.
withAuth(header, t) ==
    /\ header.scheme = "Bearer"
    /\ ValidateToken(header.token, t) = Nil

StatusOK == 200

\* AuthHandler.Refresh, lines 181-191: the message of the 401 written for the
\* error RefreshTokens returned; errors.Is matches the identity package's
\* sentinels and the errors that wrap them.
refreshErrorMessage(err) ==
    IF err = ErrTokenRevoked THEN "Token has been revoked"
    ELSE IF err = ErrTokenExpired THEN "Token has expired"
    ELSE "Invalid token"

\* POST /api/v1/auth/logout: withAuth, then AuthHandler.Logout, lines 203-227,
\* with LogoutRequest.RefreshToken = body.  hasService tells whether the
\* handler was built with a LogoutService; RevokeToken is the repository's Revoke.
Logout(header, body, hasService, down) ==
    LET authed == withAuth(header, now)
        revoke == authed /\ body # NoToken /\ hasService
    IN  /\ web' = [NoRequest EXCEPT
                     !.route = "logout", !.header = header, !.body = body,
                     !.revoker = hasService,
                     !.status = IF ~authed THEN StatusUnauthorized
                                ELSE IF revoke /\ down THEN StatusInternalServerError
                                ELSE StatusOK,
                     !.handler = IF authed THEN "authHandler.Logout" ELSE "",
                     !.userID = IF authed THEN header.token.UserID ELSE ""]
        /\ revoked' = IF revoke /\ ~down THEN Revoke(revoked, body) ELSE revoked
        /\ UNCHANGED <<now, idVars, minted, ref, login, rlVars, repVars, val,
                       limiters, out>>

\* Router.ServeHTTP for one request: the route's withRateLimit wrapper if it
\* has one, then its withAuth wrapper if it has one, then the handler, whose
\* own status is written as 0 here.
ServeHTTP(route, key, header) ==
    LET rt      == RouteTable[route]
        limited == rt.limiter # ""
        granted == ~limited \/ allowed(limiters[rt.limiter][key], now)
        authed  == ~rt.auth \/ withAuth(header, now)
    IN  /\ limiters' = IF limited
                       THEN [limiters EXCEPT ![rt.limiter] = Allow(@, key, now)]
                       ELSE limiters
        /\ web' = [route |-> route, key |-> key, header |-> header,
                   asked |-> limited,
                   status |-> IF ~granted THEN StatusTooManyRequests
                              ELSE IF ~authed THEN StatusUnauthorized
                              ELSE 0,
                   retryAfter |-> IF ~granted THEN "60" ELSE "",
                   handler |-> IF granted /\ authed THEN rt.handler ELSE "",
                   userID |-> IF granted /\ authed /\ rt.auth
                              THEN header.token.UserID ELSE "",
                   body |-> NoToken, revoker |-> FALSE]
        /\ UNCHANGED <<now, idVars, tokVars, rlVars, repVars, val, out>>

\* InviteService.ValidateInvite: FindByCode, the expiry and usage checks, then
\* communityRepo.FindByID, whose error is returned as it is.
ValidateInvite(build, code, communityDown) ==
    /\ LET e == validateInviteError(build, FindByCode(invites, code), now)
       IN  val' = [called |-> TRUE, build |-> build, code |-> code,
                   communityDown |-> communityDown,
                   err |-> IF e # Nil THEN e
                           ELSE IF communityDown THEN ErrCommunityLookupFailed
                           ELSE Nil]
    /\ UNCHANGED <<now, idVars, tokVars, rlVars, repVars, web, limiters, out>>

---------------------------------------------------------------------------
(* Specifications                                                          *)

\* A limiter nobody calls, for the specifications of the other components.
PinRl ==
    /\ rate = 1 /\ interval = 3 /\ capacity = 2
    /\ buckets = [k \in Keys |-> NoBucket]
    /\ mu = Free
    /\ call = [c \in Callers |-> IdleCall]
    /\ nextSweep = CleanupPeriod
    /\ obs = [k \in Keys |-> NoObs]
    /\ unswept = [k \in Keys |-> NoBucket]
    /\ gained = [k \in Keys |-> -1]

Init == now = 0 /\ InitId /\ InitTok /\ PinRl /\ InitRep /\ InitEdge

\* Concurrent Register and UseInvite calls with well-formed arguments; of the
\* repository calls, the one that may fail is the usage update.
Next ==
    \/ \E p \in RegProcs, email \in {Email1, Email2}, password \in {PwGood},
          handle \in {Handle1, Handle2}, code \in Codes :
          RegisterPreflight(p, email, password, handle, code, FALSE)
    \/ \E p \in RegProcs : RegisterCheckEmail(p, FALSE)
    \/ \E p \in RegProcs : RegisterCheckHandle(p, FALSE, FALSE)
    \/ \E p \in RegProcs : RegisterCreate(p, FALSE)
    \/ \E p \in RegProcs, down \in BOOLEAN : RegisterIncrement(p, down)
    \/ \E code \in Codes : UseInvite(code)
    \/ TickRegister

Spec == Init /\ [][Next]_vars

\* The stores as earlier registrations left them: one user, one invite.
InitRefresh ==
    /\ now = 0
    /\ invites = [c \in {Code1} |->
                    [Code |-> c, MaxUses |-> 0, UsedCount |-> 1, ExpiresAt |-> InviteTTL]]
    /\ users = {SeedUser}
    /\ reg = [p \in RegProcs |-> IdleReg]
    /\ uses = 0
    /\ InitTok
    /\ PinRl
    /\ InitRep
    /\ InitEdge

NextRefresh ==
    \/ \E email \in {Email1, Email2}, password \in Passwords, down \in BOOLEAN,
          accessFails \in BOOLEAN, refreshFails \in BOOLEAN :
          Login(email, password, down, accessFails, refreshFails)
    \/ \E p \in RefProcs, token \in minted \cup {ForgedToken, AnonymousToken} :
          RefreshValidate(p, token)
    \/ \E p \in RefProcs, down \in BOOLEAN : RefreshCheckRevoked(p, down)
    \/ \E p \in RefProcs, down \in BOOLEAN : RefreshRevoke(p, down)
    \/ \E p \in RefProcs, fails \in BOOLEAN : RefreshGenerateAccess(p, fails)
    \/ \E p \in RefProcs, fails \in BOOLEAN : RefreshGenerateRefresh(p, fails)
    \/ TickToken

SpecRefresh == InitRefresh /\ [][NextRefresh]_vars

\* No Register call other than p's is in progress.
Alone(p) == \A q \in RegProcs \ {p} : reg[q].pc \in {"idle", "done"}

\* Register calls made one after the other: r1 with well-formed arguments, r2
\* with arguments of every kind; every repository call and the hasher may fail.
NextSeq ==
    \/ \E email \in {Email1, Email2}, handle \in {Handle1, Handle2} :
          Alone("r1") /\ RegisterPreflight("r1", email, PwGood, handle, Code1, FALSE)
    \/ \E email \in Emails, password \in Passwords,
          handle \in Handles, code \in Codes, down \in BOOLEAN :
          Alone("r2") /\ RegisterPreflight("r2", email, password, handle, code, down)
    \/ \E p \in RegProcs, down \in BOOLEAN : RegisterCheckEmail(p, down)
    \/ \E p \in RegProcs, down \in BOOLEAN, hashFails \in BOOLEAN :
          RegisterCheckHandle(p, down, hashFails)
    \/ \E p \in RegProcs, down \in BOOLEAN : RegisterCreate(p, down)
    \/ \E p \in RegProcs, down \in BOOLEAN : RegisterIncrement(p, down)
    \/ (\A p \in RegProcs : Alone(p)) /\ TickRegister

SpecSeq == Init /\ [][NextSeq]_vars

\* Stores nobody uses, for the specification of the limiter.
PinId ==
    /\ invites = [c \in {Code1} |->
                    [Code |-> c, MaxUses |-> 0, UsedCount |-> 0, ExpiresAt |-> InviteTTL]]
    /\ users = {}
    /\ reg = [p \in RegProcs |-> IdleReg]
    /\ uses = 0

InitLimiter ==
    /\ now = 0
    /\ PinId /\ InitTok
    /\ InitRl
    /\ InitRep
    /\ InitEdge

NextLimiter ==
    \/ \E c \in Callers, key \in Keys : AllowCall(c, key)
    \/ \E c \in Callers : AllowLock(c)
    \/ \E c \in Callers : AllowBody(c)
    \/ Cleanup
    \/ TickLimiter

SpecLimiter == InitLimiter /\ [][NextLimiter]_vars

\* The limiter with Allow's lookup and update as separate steps, next to a
\* limiter that is given the same calls at the same times and is never swept.
NextSweep ==
    \/ \E c \in Callers, key \in Keys : AllowCall(c, key)
    \/ \E c \in Callers : AllowLock(c)
    \/ \E c \in Callers : AllowRead(c)
    \/ \E c \in Callers : AllowWrite(c)
    \/ Cleanup
    \/ TickLimiter

SpecSweep == InitLimiter /\ [][NextSweep]_vars

InitReputation ==
    /\ now = 0
    /\ PinId /\ InitTok /\ PinRl
    /\ InitRep
    /\ InitEdge

NextReputation ==
    \/ \E p \in RecProcs, callerID \in RepCallers, targetUserID \in RepUsers,
          eventType \in EventTypes, points \in Points, refID \in RefIDs,
          down \in BOOLEAN :
          RecordCheck(p, callerID, targetUserID, eventType, points, refID, down)
    \/ \E p \in RecProcs, down \in BOOLEAN : RecordAppend(p, down)

SpecReputation == InitReputation /\ [][NextReputation]_vars

\* ValidateInvite calls on an invite that is used and ages meanwhile.
NextInvite ==
    \/ \E build \in ValidateInviteBuilds, code \in Codes, communityDown \in BOOLEAN :
          ValidateInvite(build, code, communityDown)
    \/ \E code \in Codes : UseInvite(code)
    \/ TickRegister

SpecInvite == Init /\ [][NextInvite]_vars

InitRouter ==
    /\ now = 0
    /\ PinId /\ InitTok /\ PinRl
    /\ InitRep
    /\ InitEdge

\* Requests of two clients on every route, with every kind of header.
NextRouter ==
    \E route \in Routes, key \in Keys, header \in Headers :
        ServeHTTP(route, key, header)

SpecRouter == InitRouter /\ [][NextRouter]_vars

\* One login, one logout request with or without its tokens, and concurrent
\* RefreshTokens calls; the repositories and the token service answer, except
\* that RevokeToken may fail.
NextLogout ==
    \/ Login(Email1, PwGood, FALSE, FALSE, FALSE)
    \/ \E p \in RefProcs, token \in {t \in minted : t.Use = "refresh"} :
          RefreshValidate(p, token)
    \/ \E p \in RefProcs : RefreshCheckRevoked(p, FALSE)
    \/ \E p \in RefProcs : RefreshRevoke(p, FALSE)
    \/ \E p \in RefProcs : RefreshGenerateAccess(p, FALSE)
    \/ \E p \in RefProcs : RefreshGenerateRefresh(p, FALSE)
    \/ \E header \in {NoHeader} \cup {Bearer(t) : t \in {u \in minted : u.Use = "access"}},
          body \in {NoToken} \cup {t \in minted : t.Use = "refresh"},
          hasService \in BOOLEAN, down \in BOOLEAN :
          web = NoRequest /\ Logout(header, body, hasService, down)
    \/ TickToken

SpecLogout == InitRefresh /\ [][NextLogout]_vars

\* Register requests served by AuthHandler.Register one after the other: r1
\* with well-formed arguments, r2 with arguments of every kind; the
\* repositories answer, the token service may fail.
NextHandler ==
    \/ \E email \in {Email1, Email2}, handle \in {Handle1, Handle2} :
          Alone("r1") /\ RegisterPreflight("r1", email, PwGood, handle, Code1, FALSE)
    \/ \E email \in Emails, password \in RegisterPasswords,
          handle \in Handles, code \in Codes :
          Alone("r2") /\ RegisterPreflight("r2", email, password, handle, code, FALSE)
    \/ \E p \in RegProcs : RegisterCheckEmail(p, FALSE)
    \/ \E p \in RegProcs : RegisterCheckHandle(p, FALSE, FALSE)
    \/ \E p \in RegProcs : RegisterCreate(p, FALSE)
    \/ \E p \in RegProcs : RegisterIncrement(p, FALSE)
    \/ \E p \in RegProcs, accessFails \in BOOLEAN, refreshFails \in BOOLEAN :
          RegisterRespond(p, accessFails, refreshFails)
    \/ (\A p \in RegProcs : Alone(p)) /\ TickRegister

SpecHandler == Init /\ [][NextHandler]_vars

---------------------------------------------------------------------------
(* Properties: registration and invites (Spec)                             *)

\* C1: for every invite with max_uses = N > 0, under any interleaving of
\* concurrent Register and UseInvite calls presenting it, used_count never
\* exceeds N in any reachable state.
C1_UsedCountNeverExceedsMaxUses ==
    \A c \in DOMAIN invites :
        invites[c].MaxUses > 0 => invites[c].UsedCount <= invites[c].MaxUses

\* C2: for an invite with max_uses = N, when N+1 otherwise valid Register calls
\* (distinct emails and handles) presenting it are issued concurrently, exactly
\* N succeed and the remaining one fails with InviteExhausted.  The calls are
\* the only users of the invite, no store fails, and no call ends with an error
\* other than InviteExhausted.
C2_ExactlyNRegistrationsSucceed ==
    LET N == invites[Code1].MaxUses
    IN  (/\ N > 0
         /\ Cardinality(RegProcs) = N + 1
         /\ uses = 0
         /\ \A p \in RegProcs :
               /\ reg[p].pc = "done"
               /\ reg[p].faults = {}
               /\ reg[p].err \in {Nil, ErrInviteExhausted}
         /\ \A u, v \in users :
               u # v => u.Email # v.Email /\ u.Handle # v.Handle)
        => /\ Cardinality({p \in RegProcs : reg[p].err = Nil}) = N
           /\ Cardinality({p \in RegProcs : reg[p].err = ErrInviteExhausted}) = 1

---------------------------------------------------------------------------
(* Properties: sequential registrations (SpecSeq) and invite usage (Spec)  *)

C14_DuplicatesAreRejected ==
    [][\A p \in RegProcs :
          (reg[p].pc # "done" /\ reg'[p].pc = "done")
          => LET r == reg'[p]
                 others == {u \in users : u.ID # p}
                 usable == /\ "code" \notin r.faults
                           /\ r.code \in DOMAIN invites
                           /\ now <= invites[r.code].ExpiresAt
                           /\ ~(/\ invites[r.code].MaxUses > 0
                                /\ invites[r.code].UsedCount >= invites[r.code].MaxUses)
                           /\ emailRegex(r.email) /\ Len(r.password) >= 8
                           /\ Len(r.handle) >= 3 /\ Len(r.handle) <= 20
                           /\ handleRegex(r.handle)
                 sameEmail  == \E u \in others : u.Email = r.email
                 sameHandle == \E u \in others : u.Handle = r.handle
             IN  /\ (usable /\ sameEmail)
                    => /\ r.err = ErrEmailAlreadyRegistered
                       /\ \A u \in users' : u.ID # p
                 /\ (usable /\ ~sameEmail /\ sameHandle)
                    => /\ r.err = ErrHandleAlreadyTaken
                       /\ \A u \in users' : u.ID # p]_vars

\* C15 as stated: an invite's used_count increases by exactly one for each
\* successful Register that presented it, is left unchanged by every failed
\* Register, and is never decreased by any operation.
C15_CountedOncePerRegistration ==
    [][/\ \A c \in DOMAIN invites : invites'[c].UsedCount >= invites[c].UsedCount
       /\ \A p \in RegProcs :
             reg'[p] # reg[p]
             => IF reg'[p].pc = "done" /\ reg'[p].err = Nil
                THEN invites' = [invites EXCEPT ![reg[p].code].UsedCount = @ + 1]
                ELSE invites' = invites]_vars

\* C15 amended: an invite's used_count increases by exactly one for each
\* successful Register that presented it and whose usage update did not fail,
\* is left unchanged by every failed Register and by a successful Register
\* whose usage update failed, and is never decreased by any operation.
C15_CountedOncePerTrackedRegistration ==
    [][/\ \A c \in DOMAIN invites : invites'[c].UsedCount >= invites[c].UsedCount
       /\ \A p \in RegProcs :
             reg'[p] # reg[p]
             => IF /\ reg'[p].pc = "done" /\ reg'[p].err = Nil
                   /\ "increment" \notin reg'[p].faults
                THEN invites' = [invites EXCEPT ![reg[p].code].UsedCount = @ + 1]
                ELSE invites' = invites]_vars

\* One Register succeeded and was counted, another failed and was not.
C15_OneCountedOneFailed ==
    \E p, q \in RegProcs :
        /\ reg[p].pc = "done" /\ reg[p].err = Nil /\ reg[p].faults = {}
        /\ reg[q].pc = "done" /\ reg[q].err = ErrInviteExhausted
        /\ uses = 0
        /\ invites[Code1].UsedCount = 1

\* C16: if incrementing the invite's usage fails after the user record has been
\* created, Register still returns the created user without an error and the
\* user record is not removed.
C16_UntrackedUseKeepsTheUser ==
    \A p \in RegProcs :
        "increment" \in reg[p].faults
        => /\ reg[p].pc = "done"
           /\ reg[p].err = Nil
           /\ \E u \in users : /\ u.ID = p
                               /\ u.Email = reg[p].email
                               /\ u.Handle = reg[p].handle

\* A Register whose usage update failed has returned.
C16_UsageUpdateFailed ==
    \E p \in RegProcs :
        /\ "increment" \in reg[p].faults
        /\ reg[p].pc = "done"
        /\ invites[Code1].UsedCount = 0
        /\ \E u \in users : u.ID = p

\* C17: if the user store fails with an infrastructure error during Register's
\* email or handle uniqueness lookup, Register returns a propagated error and
\* creates no user; a failed lookup is never treated as 'email or handle is
\* free'.
C17_FailedLookupIsPropagated ==
    \A p \in RegProcs :
        (reg[p].faults \cap {"email", "handle"} # {})
        => /\ \A u \in users : u.ID # p
           /\ reg[p].pc = "done" => reg[p].err # Nil

---------------------------------------------------------------------------
(* Properties: refresh-token rotation (SpecRefresh)                        *)

\* C3: two concurrent RefreshTokens calls that present the same live refresh
\* token cannot both succeed: at most one of them returns a new token pair.
C3_AtMostOneRefreshSucceeds ==
    \A p, q \in RefProcs :
        (/\ p # q
         /\ ref[p].token = ref[q].token
         /\ ref[p].pc = "done" /\ ref[p].err = Nil
         /\ ref[q].pc = "done")
        => ref[q].err # Nil

\* C4 as stated: after a RefreshTokens call with refresh token T has succeeded,
\* every later RefreshTokens call with T fails with TokenRevoked and issues no
\* tokens.
C4_ReplayFailsWithTokenRevoked ==
    \A p \in RefProcs :
        (ref[p].late /\ ref[p].pc = "done")
        => /\ ref[p].err = ErrTokenRevoked
           /\ ref[p].accessToken = NoToken
           /\ ref[p].resp = NoResponse

\* C4 amended: after a RefreshTokens call with refresh token T has succeeded,
\* every later RefreshTokens call with T fails and issues no tokens; the error
\* is TokenRevoked when T has not expired at the time of the call and the
\* revocation store answers the lookup.
C4_ReplayFails ==
    \A p \in RefProcs :
        ref[p].late
        => /\ ref[p].pc \in {"check", "done"}
           /\ ref[p].accessToken = NoToken
           /\ ref[p].resp = NoResponse
           /\ ref[p].pc = "done" => ref[p].err # Nil
           /\ (/\ ref[p].pc = "done"
               /\ ref[p].at <= ref[p].token.ExpiresAt
               /\ ref[p].err # ErrCheckRevocationFailed)
              => ref[p].err = ErrTokenRevoked

\* A replay of a rotated, unexpired token has been answered with TokenRevoked.
C4_ReplayRejected ==
    \E p \in RefProcs :
        /\ ref[p].late /\ ref[p].pc = "done"
        /\ ref[p].at <= ref[p].token.ExpiresAt
        /\ ref[p].err = ErrTokenRevoked

\* C5: in RefreshTokens the presented token is revoked before any new token is
\* issued: if issuance fails after revocation, the call returns an error with
\* no token pair and the presented token stays revoked, so the presented token
\* and a token issued in exchange for it are never both live.
C5_RevokedBeforeIssued ==
    \A p \in RefProcs :
        /\ (\/ ref[p].pc \in {"access", "refresh"}
            \/ ref[p].accessToken # NoToken
            \/ ref[p].resp # NoResponse)
           => IsRevoked(revoked, ref[p].token)
        /\ (/\ ref[p].pc = "done"
            /\ ref[p].err \in {ErrGenerateAccessFailed, ErrGenerateRefreshFailed})
           => /\ ref[p].resp = NoResponse
              /\ IsRevoked(revoked, ref[p].token)

\* A call whose refresh-token issuance failed after the revocation.
C5_IssuanceFailedAfterRevocation ==
    \E p \in RefProcs :
        /\ ref[p].pc = "done"
        /\ ref[p].err = ErrGenerateRefreshFailed
        /\ ref[p].accessToken # NoToken
        /\ ref[p].resp = NoResponse
        /\ ref[p].token \in revoked

\* C11: Login returns the same error, InvalidCredentials, whether the email is
\* unknown or the password is wrong for an existing email, so the returned
\* value does not depend on whether the account exists.
C11_LoginFailuresAreAlike ==
    LET unknownEmail  == \A u \in users : u.Email # login.email
        wrongPassword == \E u \in users : /\ u.Email = login.email
                                          /\ u.PasswordHash # Hash(login.password)
    IN  (login.calls > 0 /\ (unknownEmail \/ wrongPassword))
        => /\ login.err = ErrInvalidCredentials
           /\ login.resp = NoResponse

\* A Login with an email nobody registered has been answered.
C11_UnknownEmailRejected ==
    /\ login.calls > 0
    /\ \A u \in users : u.Email # login.email
    /\ login.password = PwGood
    /\ login.err = ErrInvalidCredentials

\* C12: when the email is unknown, Login still performs a password comparison
\* against a fixed dummy hash before returning InvalidCredentials, so a hash
\* comparison is executed on every Login call that reaches the credential
\* check, for known and unknown emails alike.
C12_EveryLoginComparesAHash ==
    login.calls > 0 => login.compared

\* C18: token validation fails with exactly one of two error classes:
\* TokenExpired when exp has passed, and TokenInvalid for every other failure
\* (malformed token, wrong secret, missing or garbled user_id or other claims);
\* no third error value is ever returned.  A class is taken to hold the
\* package's sentinel and the validator's error of the same message.
C18_TwoErrorClasses ==
    \A p \in RefProcs :
        (ref[p].pc = "done" /\ ValidateToken(ref[p].token, ref[p].at) # Nil)
        => /\ ref[p].err \in {ErrTokenExpired, jwtTokenExpired,
                              ErrTokenInvalid, jwtInvalidToken}
           /\ ref[p].err \in {ErrTokenExpired, jwtTokenExpired}
              <=> ref[p].at > ref[p].token.ExpiresAt

---------------------------------------------------------------------------
(* Properties: rate limiter (SpecLimiter)                                  *)

\* C6: for a limiter built with rate r, on a key never seen before and with
\* less than one interval elapsing, exactly the first 2*r Allow calls return
\* true and every further call returns false, sequentially or concurrently.
\* Stated for the limiters of rate r >= 1.
C6_FirstBurstIsTwiceTheRate ==
    rate >= 1 =>
        \A k \in Keys :
            (obs[k].first >= 0 /\ now - obs[k].first < interval)
            => obs[k].granted = Min(obs[k].asked, 2 * rate)

\* C7: after a key's bucket is exhausted and no Allow call is made for that key
\* until elapsed time e >= one interval has passed, Allow calls for that key
\* succeed again for exactly min(capacity, floor(e / interval) * rate) calls and
\* are then denied.  Stated for the limiters of rate r >= 1.
C7_RefillAfterIdle ==
    rate >= 1 =>
        \A k \in Keys :
            (obs[k].burstAt >= 0 /\ now - obs[k].burstAt < interval)
            => obs[k].burstGranted = Min(obs[k].burstAsked, obs[k].burstBudget)

\* C8: Allow(k1) never changes the bucket of a different key k2, so the answers
\* for k2, which Allow computes from k2's bucket and the clock alone, are the
\* same whether or not k1 has been used or exhausted.
C8_AllowLeavesOtherKeysAlone ==
    [][\A c \in Callers :
          (call[c].pc = "held" /\ call'[c].pc = "idle")
          => \A k \in Keys \ {call[c].key} : buckets'[k] = buckets[k]]_vars

\* k1 is exhausted and has been denied, and k2's first call found a full bucket.
C8_OtherKeyServedWhileFirstExhausted ==
    /\ rate >= 1
    /\ buckets["k1"].exists /\ buckets["k1"].tokens = 0
    /\ obs["k1"].granted < obs["k1"].asked
    /\ buckets["k2"].exists /\ buckets["k2"].tokens = capacity - 1
    /\ obs["k2"].asked = 1 /\ obs["k2"].granted = 1

\* C9: Allow calls for different keys do not block each other: a call for key
\* k1 can enter its bucket update while a call for key k2 is inside its own
\* bucket critical section; only calls for the same key are serialized.
C9_DifferentKeysDoNotBlock ==
    \A c, d \in Callers :
        (/\ call[c].pc = "lock" /\ call[d].pc = "held"
         /\ call[c].key # call[d].key)
        => ENABLED AllowLock(c)

\* C10: the periodic sweep removes a bucket only if it has been idle for longer
\* than 10 times the limiter's configured interval.
C10_SweepRemovesOnlyLongIdle ==
    [][\A k \in Keys :
          (buckets[k].exists /\ ~buckets'[k].exists)
          => now - buckets[k].lastCheck > 10 * interval]_vars

\* C19: recording the same (user, eventType, non-empty refID) twice in sequence,
\* the second call fails with DuplicateEvent and the points are applied once:
\* once the repeat has had its duplicate lookup answered, it has ended with
\* ErrDuplicateEvent, the ledger holds the one event of the first call, and the
\* user's reputation is the points of that one event.
C19_RepeatIsRejectedAndCountedOnce ==
    \A q \in RecProcs :
        (/\ rec[q].late /\ rec[q].refID # ""
         /\ rec[q].err # ErrCheckDuplicateFailed)
        => /\ rec[q].pc = "done"
           /\ rec[q].err = ErrDuplicateEvent
           /\ Len(events) = 1
           /\ events[1] = [UserID |-> rec[q].target, EventType |-> rec[q].eventType,
                           Points |-> rec[q].points, RefID |-> rec[q].refID]
           /\ GetReputation(reputation, rec[q].target) = rec[q].points

\* e1 has recorded an upvote of 10 for u2 on m1, and e2, repeating the call
\* afterwards, was refused as a duplicate with u2's reputation still 10.
C19_SecondCallRefused ==
    /\ rec["e1"].pc = "done" /\ rec["e1"].err = Nil
    /\ rec["e1"].target = "u2" /\ rec["e1"].eventType = EventMessageUpvoted
    /\ rec["e1"].points = 10 /\ rec["e1"].refID = "m1"
    /\ rec["e2"].pc = "done" /\ rec["e2"].late
    /\ rec["e2"].err = ErrDuplicateEvent
    /\ GetReputation(reputation, "u2") = 10

\* C20: under any interleaving of concurrent RecordReputationEvent calls that
\* carry the same (user, eventType, non-empty refID), at most one event with
\* that key is appended to the ledger.
C20_AtMostOneEventPerKey ==
    \A i, j \in 1..Len(events) :
        (/\ events[i].RefID # ""
         /\ events[i].UserID = events[j].UserID
         /\ events[i].EventType = events[j].EventType
         /\ events[i].RefID = events[j].RefID)
        => i = j

\* The calls that have returned without an error.
RecordedCalls == {p \in RecProcs : rec[p].pc = "done" /\ rec[p].err = Nil}

\* C21: RecordReputationEvent with callerID equal to targetUserID fails with
\* SelfReputation for every event type other than the moderator action,
\* whatever the event type and points, and appends nothing: such a call is over
\* after its checks with ErrSelfReputation, and the ledger holds exactly one
\* event per call that returned without error.
C21_SelfReputationIsRefused ==
    /\ \A p \in RecProcs :
          (/\ rec[p].pc # "idle"
           /\ rec[p].caller = rec[p].target
           /\ rec[p].eventType # EventModeratorAction)
          => rec[p].pc = "done" /\ rec[p].err = ErrSelfReputation
    /\ Len(events) = Cardinality(RecordedCalls)

\* e1 tried to give itself points with an unknown event type and e2 with an
\* upvote out of range; both were refused as self reputation, nothing appended.
C21_SelfCallsRefused ==
    /\ rec["e1"].pc = "done" /\ rec["e1"].caller = "u1" /\ rec["e1"].target = "u1"
    /\ rec["e1"].eventType = "bogus" /\ rec["e1"].err = ErrSelfReputation
    /\ rec["e2"].pc = "done" /\ rec["e2"].caller = "u1" /\ rec["e2"].target = "u1"
    /\ rec["e2"].eventType = EventMessageUpvoted /\ rec["e2"].points = 11
    /\ rec["e2"].err = ErrSelfReputation
    /\ events = <<>>

\* C22: RecordReputationEvent (past the self check) rejects an unknown event
\* type with InvalidEventType and points outside the type's closed [min, max]
\* range with InvalidPointsValue, accepts points equal to min or to max, and
\* appends an event only when both checks pass.
C22_TypeAndPointsAreValidated ==
    /\ \A p \in RecProcs :
          (/\ rec[p].pc # "idle"
           /\ (rec[p].caller # rec[p].target \/ rec[p].eventType = EventModeratorAction))
          => LET t == rec[p].eventType
                 n == rec[p].points
             IN  IF t \notin {EventMessagePosted, EventMessageUpvoted,
                              EventMessageDownvoted, EventInviteUsed,
                              EventReportedAbuse, EventModeratorAction}
                 THEN rec[p].pc = "done" /\ rec[p].err = ErrInvalidEventType
                 ELSE IF n < ReputationPointLimits[t].Min
                         \/ n > ReputationPointLimits[t].Max
                 THEN rec[p].pc = "done" /\ rec[p].err = ErrInvalidPointsValue
                 ELSE rec[p].err \notin {ErrInvalidEventType, ErrInvalidPointsValue}
    /\ \A i \in 1..Len(events) :
          /\ events[i].EventType \in DOMAIN ReputationPointLimits
          /\ events[i].Points >= ReputationPointLimits[events[i].EventType].Min
          /\ events[i].Points <= ReputationPointLimits[events[i].EventType].Max

\* An upvote of exactly the maximum, 10, was recorded for u2 and an upvote of
\* 11 was refused for its points.
C22_MaxAcceptedAboveMaxRefused ==
    /\ rec["e1"].pc = "done" /\ rec["e1"].target = "u2"
    /\ rec["e1"].eventType = EventMessageUpvoted /\ rec["e1"].points = 10
    /\ rec["e1"].err = Nil
    /\ rec["e2"].pc = "done" /\ rec["e2"].target = "u2"
    /\ rec["e2"].eventType = EventMessageUpvoted /\ rec["e2"].points = 11
    /\ rec["e2"].err = ErrInvalidPointsValue
    /\ Len(events) = 1 /\ events[1].Points = 10

RECURSIVE SumPoints(_, _)
\* The sum of the points of the ledger's events for one user.
SumPoints(ledger, userID) ==
    IF ledger = <<>> THEN 0
    ELSE (IF Head(ledger).UserID = userID THEN Head(ledger).Points ELSE 0)
         + SumPoints(Tail(ledger), userID)

\* C23: after any sequence of RecordReputationEvent calls, GetReputation(u) is
\* the sum of the points of all events appended for u (0 if there are none);
\* rejected calls contribute nothing and no event is ever removed: every step
\* leaves the old ledger as a prefix of the new one.
C23_ReputationIsTheSumOfEvents ==
    [][/\ \A u \in RepUsers :
             /\ GetReputation(reputation, u) = SumPoints(events, u)
             /\ GetReputation(reputation', u) = SumPoints(events', u)
       /\ Len(events') >= Len(events)
       /\ SubSeq(events', 1, Len(events)) = events
       /\ \A p \in RecProcs :
             (rec[p].pc # "done" /\ rec'[p].pc = "done" /\ rec'[p].err # Nil)
             => events' = events /\ reputation' = reputation]_vars

\* Two events were recorded for u2, an upvote of 10 and then one of 1, a score of 11.
C23_TwoEventsSummed ==
    /\ Len(events) = 2
    /\ events[1].UserID = "u2" /\ events[1].Points = 10
    /\ events[2].UserID = "u2" /\ events[2].Points = 1
    /\ GetReputation(reputation, "u2") = 11
    /\ GetReputation(reputation, "u1") = 0

\* C24: a user's reputation is monotonic: no step of any operation decreases
\* the value of GetReputation(u).
C24_ReputationNeverDecreases ==
    [][\A u \in RepUsers :
          GetReputation(reputation', u) >= GetReputation(reputation, u)]_vars

\* C25: ValidateInvite applies the same expiry and exhaustion checks as
\* Register: whenever a ValidateInvite call returns (its community lookup
\* answering), it has succeeded exactly when Register's invite checks pass on
\* the same invite at the same time, max_uses = 0 meaning unlimited in both,
\* and the call leaves the invite store as it was.
C25_ValidateInviteAgreesWithRegister ==
    [][(val' # val /\ ~val'.communityDown)
       => /\ (val'.err = Nil)
             <=> (inviteError(FindByCode(invites, val'.code), now) = Nil)
          /\ invites' = invites]_vars

\* C26: every register, login and refresh request passes a rate limiter's
\* Allow check before any business logic runs; a denied request is answered
\* with a rejection carrying a retry-after hint and never reaches its handler.
C26_AdmissionEdgeIsRateLimited ==
    web.route \in {"register", "login", "refresh"}
    => /\ web.asked
       /\ web.status = StatusTooManyRequests
          => web.retryAfter # "" /\ web.handler = ""

\* C30: a protected handler runs only if the request carries a Bearer token
\* that validates, and then the user ID placed in the request context is the
\* token's user_id; in every other case the response is 401 and the handler
\* is not invoked.
C30_ProtectedHandlerNeedsValidBearer ==
    (web.route \in Routes /\ RouteTable[web.route].auth)
    => IF /\ web.header.scheme = "Bearer"
          /\ ValidateToken(web.header.token, now) = Nil
       THEN /\ web.handler = RouteTable[web.route].handler
            /\ web.userID = web.header.token.UserID
            /\ web.userID # ""
       ELSE /\ web.status = StatusUnauthorized
            /\ web.handler = ""
            /\ web.userID = ""

\* GET /api/v1/users/me with a live access token of u1 reached its handler
\* with u1 in the request context.
C30_ProfileServedForTokenUser ==
    /\ web.route = "me"
    /\ web.header = Bearer(LiveAccessToken)
    /\ web.handler = "userHandler.GetProfile"
    /\ web.userID = "u1"

\* C27: Register rejects a password shorter than 8 characters with
\* PasswordTooShort and a password of length >= 8 that lacks a letter or lacks
\* a digit with PasswordTooWeak, and creates no user in either case: a call
\* with such a password is over after its first checks, with that error unless
\* the invite or the email format was refused first, and no user of the call
\* is in the store.
C27_WeakPasswordsAreRejected ==
    \A p \in RegProcs :
        LET pw == reg[p].password
            short == Len(pw) < 8
            weak  == /\ Len(pw) >= 8
                     /\ \/ \A k \in 1..Len(pw) : pw[k] \notin Letters
                        \/ \A k \in 1..Len(pw) : pw[k] \notin Digits
        IN  (reg[p].pc # "idle" /\ (short \/ weak))
            => /\ reg[p].pc = "done"
               /\ reg[p].err \in {ErrInvalidInviteCode, ErrInviteExpired,
                                  ErrInviteExhausted, ErrInvalidEmailFormat,
                                  IF short THEN ErrPasswordTooShort
                                  ELSE ErrPasswordTooWeak}
               /\ \A u \in users : u.ID # p

\* C28: for valid inputs (well-formed email, password of at least 8 characters
\* with a letter and a digit, valid handle, unexpired and unexhausted invite,
\* unused email and handle) registration succeeds, the new user has reputation
\* 0, and the access and refresh tokens issued by the handler both validate
\* with user_id equal to the new user's ID.  The first half is read at the step
\* in which Register returns, the second at the step in which the handler
\* answers a successful Register with its token service working.
C28_ValidRegistrationSucceeds ==
    [][\A p \in RegProcs :
          LET r == reg'[p]
              validArguments ==
                  /\ r.email \in {Email1, Email2}
                  /\ Len(r.password) >= 8
                  /\ \E k \in 1..Len(r.password) : r.password[k] \in Letters
                  /\ \E k \in 1..Len(r.password) : r.password[k] \in Digits
                  /\ Len(r.handle) >= 3 /\ Len(r.handle) <= 20
                  /\ \A k \in 1..Len(r.handle) :
                        r.handle[k] \in Letters \cup Digits \cup {"_"}
              usableInvite ==
                  /\ r.code \in DOMAIN invites
                  /\ now <= invites[r.code].ExpiresAt
                  /\ \/ invites[r.code].MaxUses = 0
                     \/ invites[r.code].UsedCount < invites[r.code].MaxUses
              unused ==
                  \A u \in users :
                      u.ID # p => u.Email # r.email /\ u.Handle # r.handle
          IN  /\ (/\ reg[p].pc # "done" /\ r.pc = "done"
                  /\ validArguments /\ usableInvite /\ unused)
                 => /\ r.err = Nil
                    /\ \E u \in users' :
                          /\ u.ID = p /\ u.Email = r.email /\ u.Handle = r.handle
                          /\ u.Reputation = 0
              /\ (/\ ~out[p].sent /\ out'[p].sent
                  /\ reg[p].err = Nil /\ out'[p].faults = {})
                 => /\ out'[p].status = StatusCreated
                    /\ out'[p].User.ID = p
                    /\ out'[p].User.Reputation = 0
                    /\ ValidateToken(out'[p].AccessToken, now) = Nil
                    /\ ValidateToken(out'[p].RefreshToken, now) = Nil
                    /\ out'[p].AccessToken.UserID = out'[p].User.ID
                    /\ out'[p].RefreshToken.UserID = out'[p].User.ID
                    /\ out'[p].AccessToken # out'[p].RefreshToken]_vars

\* Both requests were answered 201: r1 and then r2 registered with different
\* emails and handles, each with tokens carrying its own user's ID.
C28_TwoUsersRegisteredWithTokens ==
    /\ out["r1"].status = StatusCreated /\ out["r2"].status = StatusCreated
    /\ out["r1"].AccessToken.UserID = "r1" /\ out["r1"].RefreshToken.UserID = "r1"
    /\ out["r2"].AccessToken.UserID = "r2" /\ out["r2"].RefreshToken.UserID = "r2"
    /\ out["r2"].User.Reputation = 0
    /\ \E u \in users : u.ID = "r2" /\ u.Email = reg["r2"].email /\ u.Reputation = 0

---------------------------------------------------------------------------
(* Properties: the cleanup sweep and the refill (SpecSweep, SpecLimiter)   *)

\* C31: the cleanup sweep and Allow are mutually exclusive on a bucket: no
\* sweep runs while an Allow call is between its lookup of the bucket and its
\* update, so the update is made to the bucket the call found: it is not lost
\* and it is not made to a bucket that has been deleted from the map.
C31_SweepAndAllowExcludeEachOther ==
    [][/\ (nextSweep' # nextSweep) => \A c \in Callers : call[c].pc # "read"
       /\ \A c \in Callers :
             (call[c].pc = "read" /\ call'[c].pc = "idle")
             => /\ buckets[call[c].key] = call[c].seen
                /\ buckets'[call[c].key] = bucketAfter(call[c].seen, call[c].at)]_vars

\* A call has found a bucket that the sweep now due would delete.
C31_SweepDueWhileAllowUpdates ==
    \E c \in Callers :
        /\ call[c].pc = "read"
        /\ call[c].seen.exists
        /\ nextSweep <= now
        /\ now - call[c].seen.lastCheck > CleanupIdle

\* C32: refill depends on total elapsed time: for a key whose bucket is empty,
\* once at least one full interval has passed since the bucket last gained
\* tokens, the next Allow call succeeds, however many denied calls were made in
\* between.  Stated for the limiters of rate r >= 1.
C32_RefillCountsTotalElapsedTime ==
    rate >= 1 =>
        \A c \in Callers :
            (/\ call[c].pc = "read"
             /\ call[c].seen.exists /\ call[c].seen.tokens = 0
             /\ gained[call[c].key] >= 0
             /\ call[c].at - gained[call[c].key] >= interval)
            => allowed(call[c].seen, call[c].at)

\* C33: sweeping is unobservable to callers: every Allow call gets the answer
\* that a limiter given the same calls at the same times, and never swept,
\* gives.  Stated for the limiters of rate r >= 1.
C33_SweepIsUnobservable ==
    rate >= 1 =>
        \A c \in Callers :
            call[c].pc = "read"
            => allowed(call[c].seen, call[c].at)
                 = allowed(unswept[call[c].key], call[c].at)

\* C34: in every reachable state every bucket's token count t satisfies
\* 0 <= t <= capacity, for every rate >= 0 the limiter is built with.
C34_TokensStayWithinCapacity ==
    \A k \in Keys :
        buckets[k].exists => (0 <= buckets[k].tokens /\ buckets[k].tokens <= capacity)


---------------------------------------------------------------------------
(* Properties: concurrent registrations (Spec)                             *)

\* C35: under any interleaving of concurrent Register calls, no two created
\* users share an email and no two share a handle.
C35_EmailsAndHandlesAreUnique ==
    \A u, v \in users :
        u # v => (u.Email # v.Email /\ u.Handle # v.Handle)


---------------------------------------------------------------------------
(* Properties: the two kinds of token (SpecRefresh, SpecRouter)            *)

\* C36: RefreshTokens accepts only refresh tokens: a call that presented a
\* valid, unexpired access token ends with an error and without a new pair.
C36_RefreshTokensRejectsAccessTokens ==
    \A p \in RefProcs :
        (/\ ref[p].pc = "done"
         /\ ref[p].token.Use = "access"
         /\ ValidateToken(ref[p].token, ref[p].at) = Nil)
        => /\ ref[p].err # Nil
           /\ ref[p].resp = NoResponse

\* C37: protected routes accept only access tokens: a request that presents a
\* refresh token as its Bearer credential is answered with 401 and the
\* protected handler is not invoked.
C37_ProtectedRoutesRejectRefreshTokens ==
    (/\ web.route \in Routes /\ RouteTable[web.route].auth
     /\ web.header.scheme = "Bearer"
     /\ web.header.token.Use = "refresh")
    => /\ web.status = StatusUnauthorized
       /\ web.handler = ""

\* C38: the refresh endpoint distinguishes the three rejection causes: for an
\* expired refresh token the error that reaches the handler is the TokenExpired
\* sentinel and the client is told the token has expired; for a token that was
\* rotated before (and a revocation store that answers) it is the TokenRevoked
\* sentinel and the client is told so; every other bad token is reported as
\* invalid.
C38_RefreshTellsTheThreeCausesApart ==
    \A p \in RefProcs :
        ref[p].pc = "done" =>
            LET cause == ValidateToken(ref[p].token, ref[p].at)
            IN  /\ cause = jwtTokenExpired
                   => /\ ref[p].err = ErrTokenExpired
                      /\ refreshErrorMessage(ref[p].err) = "Token has expired"
                /\ (cause = Nil /\ ref[p].late /\ ref[p].err # ErrCheckRevocationFailed)
                   => /\ ref[p].err = ErrTokenRevoked
                      /\ refreshErrorMessage(ref[p].err) = "Token has been revoked"
                /\ cause \notin {Nil, jwtTokenExpired}
                   => refreshErrorMessage(ref[p].err) = "Invalid token"

---------------------------------------------------------------------------
(* Properties: the registration endpoint's error responses (SpecHandler)   *)

\* C39: a registration request that ends in an error response leaves no new
\* user in the user store and the invite's used_count unchanged, also when
\* token generation fails after the identity service has returned the user:
\* no stored user and no counted use belongs to a request answered with an
\* error.
C39_ErrorResponseLeavesNoTrace ==
    LET failed(p) == out[p].sent /\ out[p].status # StatusCreated
    IN  /\ \A p \in RegProcs : failed(p) => ~\E u \in users : u.ID = p
        /\ invites[Code1].UsedCount
             <= Cardinality({p \in RegProcs :
                               reg[p].pc = "done" /\ reg[p].err = Nil /\ ~failed(p)})

====
